---------------------------- MODULE Spec2Model ----------------------------
(***************************************************************************)
(* A model of prefect/core/task.py: the SignatureValidator metaclass, the  *)
(* Task constructor, Task.__call__ (dependency binding), and Parameter.    *)
(* The task runner, the flow graph and the built-in triggers are not part  *)
(* of task.py; where a property needs them they are modelled from the      *)
(* design document and marked as such.                                     *)
(***************************************************************************)
EXTENDS Integers, Sequences, FiniteSets, TLC

(***************************************************************************)
(* The state.  Each part of the model has its own variables; an action of  *)
(* one part leaves the others unchanged.                                   *)
(***************************************************************************)
VARIABLES
    types,      \* the task types defined so far, in definition order
    lastDef     \* the last class statement executed and its outcome

typeVars == <<types, lastDef>>

VARIABLES
    ctx_tags,   \* prefect.context["_tags"]
    task,       \* the task the last constructor call returned, if it returned
    taskArgs,   \* the arguments of the last constructor call
    taskCtx,    \* the ambient tags the last constructor call ran under
    taskErr,    \* the exception the last constructor call raised, or "none"
    warned      \* whether the last constructor call emitted a warning

taskVars == <<ctx_tags, task, taskArgs, taskCtx, taskErr, warned>>

VARIABLES
    flow,       \* the flow's graph: its tasks and its edges
    ctx_flow,   \* whether prefect.context["_flow"] holds the flow
    lastCall,   \* the last call of a task, its outcome and what it handed on
    prevFlow,   \* the graph as it was when the last call began
    calls       \* how many calls were made

bindVars == <<flow, ctx_flow, lastCall, prevFlow, calls>>

VARIABLES
    eArgs,      \* the constructor arguments of the task being run
    eTask,      \* the task being run, as its constructor built it
    eUpstream,  \* the terminal states of its upstream tasks
    ePrior,     \* the age of its most recent Success/Cached record, if any
    eState,     \* its current state
    eStep,      \* the step of the per-attempt algorithm it is at
    run_count,  \* the attempt number
    eSeen,      \* the attempt numbers the entrypoint saw, in order
    eOutcomes,  \* what the entrypoint did on each attempt, in order
    eTrace,     \* the states entered, in order
    triggerCalls \* how many times the trigger was evaluated

engineVars == <<eArgs, eTask, eUpstream, ePrior, eState, eStep, run_count, eSeen, eOutcomes, eTrace, triggerCalls>>

VARIABLES
    param,          \* the Parameter constructed, if construction returned
    pArgs,          \* the arguments it was constructed with
    pLastOp,        \* the last constructor call or assignment and its outcome
    ctx_parameters, \* prefect.context["_parameters"]
    pRun,           \* the outcome of the last run of the Parameter
    pDownstream     \* the state a task fed by the Parameter ended in

paramVars == <<param, pArgs, pLastOp, ctx_parameters, pRun, pDownstream>>

vars == <<typeVars, taskVars, bindVars, engineVars, paramVars>>
notTypeVars == <<taskVars, bindVars, engineVars, paramVars>>
notTaskVars == <<typeVars, bindVars, engineVars, paramVars>>
notBindVars == <<typeVars, taskVars, engineVars, paramVars>>
notEngineVars == <<typeVars, taskVars, bindVars, paramVars>>
notParamVars == <<typeVars, taskVars, bindVars, engineVars>>

(***************************************************************************)
(* Optional values: Python's None is the empty tuple, a value v is <<v>>.  *)
(***************************************************************************)
NoneV == <<>>
Some(v) == <<v>>

\* an entry of prefect.context: absent, or present with a value
AbsentEntry(default) == [present |-> FALSE, value |-> default]
PresentEntry(v) == [present |-> TRUE, value |-> v]

\* prefect.context.get(key, default): the value stored, or the default
context_get(entry, default) == IF entry.present THEN entry.value ELSE default

-----------------------------------------------------------------------------
(***************************************************************************)
(* Part 1.  SignatureValidator: the metaclass of every task type.          *)
(***************************************************************************)

\* how many task types a run defines beyond Task and Parameter
MaxTypes == 2

\* the `methods` namespace of a class statement, as far as __new__ reads it:
\* whether it declares run, and whether that run takes *args / **kwargs
Methods ==
    {[hasRun |-> FALSE, varargs |-> FALSE, varkw |-> FALSE]} \cup
    [hasRun : {TRUE}, varargs : BOOLEAN, varkw : BOOLEAN]

\* inspect.getfullargspec(methods.get("run", lambda: None)).varargs
run_sig_varargs(methods) == IF methods.hasRun THEN methods.varargs ELSE FALSE

\* a validator that checks only direct subclasses of nothing (the root type)
\* and lets every subtype through unchecked
SignatureValidator__new__RootOnly(parents, methods) ==
    IF parents = {} /\ run_sig_varargs(methods) THEN "ValueError" ELSE "defined"

\* SignatureValidator.__new__: ValueError when run takes *args, else the type
SignatureValidator__new__(parents, methods) ==
    IF run_sig_varargs(methods) THEN "ValueError" ELSE "defined"

\* class Task (run(self)) and class Parameter(Task) (run(self)), both created
\* through the metaclass when the module is imported
BuiltinTypes ==
    << [parents |-> {}, methods |-> [hasRun |-> TRUE, varargs |-> FALSE, varkw |-> FALSE]],
       [parents |-> {1}, methods |-> [hasRun |-> TRUE, varargs |-> FALSE, varkw |-> FALSE]] >>

NoDef == [parents |-> {}, methods |-> [hasRun |-> FALSE, varargs |-> FALSE, varkw |-> FALSE],
          outcome |-> "none"]

InitTypes ==
    /\ types = BuiltinTypes
    /\ lastDef = NoDef

\* a class statement `class X(parents): <methods>` whose bases are task types
DefineType(parents, methods) ==
    /\ Len(types) < Len(BuiltinTypes) + MaxTypes
    /\ LET outcome == SignatureValidator__new__(parents, methods) IN
        /\ lastDef' = [parents |-> parents, methods |-> methods, outcome |-> outcome]
        /\ types' = IF outcome = "defined"
                       THEN Append(types, [parents |-> parents, methods |-> methods])
                       ELSE types
    /\ UNCHANGED notTypeVars

\* the classes a type inherits from, directly or not
RECURSIVE Ancestors(_, _)
Ancestors(ts, t) ==
    ts[t].parents \cup UNION {Ancestors(ts, p) : p \in ts[t].parents}

\* every run a lookup of `run` on the type can resolve to: its own or an
\* inherited one
EntrypointCandidates(ts, t) ==
    {ts[c].methods : c \in {d \in Ancestors(ts, t) \cup {t} : ts[d].methods.hasRun}}

-----------------------------------------------------------------------------
(***************************************************************************)
(* Part 2.  Task.__init__.                                                 *)
(***************************************************************************)

Tags == {"a", "b"}

\* the `tags` argument: None, a bare string, or a collection of strings
TagsArgs ==
    {[kind |-> "none", items |-> {}], [kind |-> "str", items |-> {}]} \cup
    [kind : {"coll"}, items : SUBSET Tags]

\* the longest cache_for duration drawn, and the most retries
MaxCacheFor == 2
MaxRetries == 2

CacheForArgs == {NoneV} \cup {Some(d) : d \in 1..MaxCacheFor}
ValidatorArgs == {NoneV, Some("never_use"), Some("duration_only"), Some("all_inputs")}
TriggerArgs == {NoneV, Some("all_successful"), Some("all_finished")}

\* lines 97-99: a bare string is a TypeError; otherwise
\* set(tags or prefect.context.get("_tags", []))
init_tags(tags, ctx) ==
    IF tags.kind = "str" THEN [err |-> "TypeError", tags |-> {}]
    ELSE [err |-> "none",
          tags |-> IF tags.kind = "coll" /\ tags.items # {}
                      THEN tags.items
                      ELSE context_get(ctx, {})]

\* lines 114-119: cache_validator or (never_use if cache_for is None
\* else duration_only)
init_cache_validator(cache_for, cache_validator) ==
    LET default_validator ==
            IF cache_for = NoneV THEN "never_use" ELSE "duration_only"
    IN IF cache_validator # NoneV THEN cache_validator[1] ELSE default_validator

\* lines 108-111: the warning about a validator without an expiration
init_warns(cache_for, cache_validator) ==
    cache_for = NoneV /\ cache_validator # NoneV

\* a constructor that drops the retry budget
init_max_retries_dropped(max_retries) == 0

\* line 101: self.max_retries = max_retries
init_max_retries(max_retries) == max_retries

\* a constructor that ignores the flag and always skips on an upstream skip
init_skip_on_upstream_skip_always(skip_on_upstream_skip) == TRUE

\* line 106: self.skip_on_upstream_skip = skip_on_upstream_skip
init_skip_on_upstream_skip(skip_on_upstream_skip) == skip_on_upstream_skip

\* line 105: trigger or prefect.triggers.all_successful
init_trigger(trigger) == IF trigger # NoneV THEN trigger[1] ELSE "all_successful"

\* the constructor's keyword defaults (lines 75-89)
DefaultArgs ==
    [tags |-> [kind |-> "none", items |-> {}], max_retries |-> 0, trigger |-> NoneV,
     skip_on_upstream_skip |-> TRUE, cache_for |-> NoneV, cache_validator |-> NoneV]

\* Task.__init__: the exception raised ("none" if it returns), the fields
\* stored, and whether it warned.  name, slug, description, group,
\* retry_delay and timeout are stored as given and read by no property here.
Task__init__(a, ctx) ==
    LET t == init_tags(a.tags, ctx) IN
    [err |-> t.err,
     warned |-> t.err = "none" /\ init_warns(a.cache_for, a.cache_validator),
     self |-> [tags |-> t.tags,
               max_retries |-> init_max_retries(a.max_retries),
               trigger |-> init_trigger(a.trigger),
               skip_on_upstream_skip |-> init_skip_on_upstream_skip(a.skip_on_upstream_skip),
               cache_for |-> a.cache_for,
               cache_validator |-> init_cache_validator(a.cache_for, a.cache_validator)]]

CtxTagsValues == {AbsentEntry({})} \cup {PresentEntry(S) : S \in SUBSET Tags}

InitTask ==
    /\ ctx_tags = AbsentEntry({})
    /\ task = NoneV
    /\ taskArgs = DefaultArgs
    /\ taskCtx = AbsentEntry({})
    /\ taskErr = "none"
    /\ warned = FALSE

\* entering or leaving a scope that sets the ambient tags
SetContextTags(entry) ==
    /\ ctx_tags' = entry
    /\ UNCHANGED <<task, taskArgs, taskCtx, taskErr, warned>>
    /\ UNCHANGED notTaskVars

\* Task(tags=..., cache_for=..., cache_validator=...) under the ambient context
ConstructTask(a) ==
    LET r == Task__init__(a, ctx_tags) IN
    /\ taskArgs' = a
    /\ taskCtx' = ctx_tags
    /\ taskErr' = r.err
    /\ task' = IF r.err = "none" THEN Some(r.self) ELSE NoneV
    /\ warned' = r.warned
    /\ UNCHANGED ctx_tags
    /\ UNCHANGED notTaskVars

-----------------------------------------------------------------------------
(***************************************************************************)
(* Part 3.  Task.__call__: binding a call's arguments into flow edges.     *)
(***************************************************************************)

\* how many calls a run makes, and how many positional arguments a call gives
MaxCalls == 2
MaxPos == 2

\* argument values: a literal, a task, or (inside callargs) a nested mapping
Lit == [kind |-> "lit", task |-> "", entries |-> {}]
TaskV(t) == [kind |-> "task", task |-> t, entries |-> {}]
MapV(m) == [kind |-> "map", task |-> "", entries |-> {<<k, m[k]>> : k \in DOMAIN m}]

EmptyDict == [k \in {} |-> Lit]

UpstreamTasks == {"A", "B"}
\* the i-th positional argument of a call: a task, a literal, a task, ...
PosValue(i) == IF i % 2 = 1 THEN TaskV("A") ELSE Lit
\* the values a keyword argument takes
KwValues == {Lit, TaskV("B")}
UpstreamArgs == {{}, UpstreamTasks}
KwNames == {"x", "z"}

\* the run signatures of the task types called: run(self, x, y=None) and
\* run(self, x, **kwargs); neither takes *args (Part 1)
Signatures ==
    [T1 |-> [params |-> << [name |-> "x", required |-> TRUE],
                           [name |-> "y", required |-> FALSE] >>,
             varkw |-> NoneV],
     T2 |-> [params |-> << [name |-> "x", required |-> TRUE] >>,
             varkw |-> Some("kwargs")]]

CalledTasks == DOMAIN Signatures

\* the names of the parameters the entrypoint declares, as Task.inputs()
\* lists them, without the ** parameter
ParamNames(sig) == {sig.params[i].name : i \in 1..Len(sig.params)}

\* the four ways inspect.Signature.bind raises TypeError
TooManyPositional(sig, args) == Len(args) > Len(sig.params)
MultipleValues(sig, args, kwargs) ==
    \E i \in 1..Len(sig.params) : i <= Len(args) /\ sig.params[i].name \in DOMAIN kwargs
UnexpectedKeyword(sig, kwargs) ==
    sig.varkw = NoneV /\ \E k \in DOMAIN kwargs : k \notin ParamNames(sig)
MissingRequired(sig, args, kwargs) ==
    \E i \in 1..Len(sig.params) :
        /\ i > Len(args)
        /\ sig.params[i].required
        /\ sig.params[i].name \notin DOMAIN kwargs

\* the entries a ** parameter captures: the keywords that name no parameter
Captured(sig, kwargs) == {k \in DOMAIN kwargs : k \notin ParamNames(sig)}

\* dict(signature.bind(*args, **kwargs).arguments): TypeError, or the bound
\* arguments with the captured keywords nested under the ** parameter's name
signature_bind(sig, args, kwargs) ==
    IF \/ TooManyPositional(sig, args)
       \/ MultipleValues(sig, args, kwargs)
       \/ UnexpectedKeyword(sig, kwargs)
       \/ MissingRequired(sig, args, kwargs)
    THEN [err |-> "TypeError", arguments |-> EmptyDict]
    ELSE LET pos == {sig.params[i].name : i \in 1..Len(args)}
             kw == DOMAIN kwargs \cap ParamNames(sig)
             cap == Captured(sig, kwargs)
             nested == IF cap # {} THEN {sig.varkw[1]} ELSE {}
             index(n) == CHOOSE i \in 1..Len(sig.params) : sig.params[i].name = n
         IN [err |-> "none",
             arguments |->
                [n \in pos \cup kw \cup nested |->
                    IF n \in pos THEN args[index(n)]
                    ELSE IF n \in kw THEN kwargs[n]
                    ELSE MapV([k \in cap |-> kwargs[k]])]]

\* the inspect.Parameter object of the ** parameter (its repr), which is not
\* the parameter's name; the string "None" when the signature has none
ParameterObject(sig) ==
    IF sig.varkw = NoneV THEN "None" ELSE "<Parameter \"**" \o sig.varkw[1] \o "\">"

\* lines 167-169: next(p for p in parameters.values() if p.kind == VAR_KEYWORD)
var_kw_arg(sig) == ParameterObject(sig)

\* d.pop(key, default): the value removed (or the default) and what is left
dict_pop(d, key, default) ==
    [value |-> IF key \in DOMAIN d THEN d[key] ELSE default,
     rest |-> [k \in DOMAIN d \ {key} |-> d[k]]]

\* d.update(m) for a mapping value m
dict_update(d, m) ==
    LET ks == {e[1] : e \in m.entries}
        val(k) == (CHOOSE e \in m.entries : e[1] = k)[2]
    IN [k \in DOMAIN d \cup ks |-> IF k \in ks THEN val(k) ELSE d[k]]

\* line 170: callargs.update(callargs.pop(var_kw_arg, {}))
expand_var_kw(callargs, sig) ==
    LET popped == dict_pop(callargs, var_kw_arg(sig), MapV(EmptyDict))
    IN dict_update(popped.rest, popped.value)

Edge(up, down, key) == [upstream |-> up, downstream |-> down, key |-> key]

\* the edges a call of `self` resolves to: an unkeyed edge per upstream task,
\* a keyed edge per keyword whose value is a task
ResolvedEdges(self, upstream_tasks, keyword_tasks) ==
    {Edge(u, self, NoneV) : u \in upstream_tasks} \cup
    {Edge(keyword_tasks[k].task, self, Some(k)) :
        k \in {n \in DOMAIN keyword_tasks : keyword_tasks[n].kind = "task"}}

\* flow.set_dependencies(task, upstream_tasks, keyword_tasks): adds the task,
\* the tasks it depends on, and the resolved edges
Flow_set_dependencies(f, self, upstream_tasks, keyword_tasks) ==
    LET new == ResolvedEdges(self, upstream_tasks, keyword_tasks) IN
    [tasks |-> f.tasks \cup {self} \cup {e.upstream : e \in new},
     edges |-> f.edges \cup new]

\* Task.set_dependencies (lines 208-220) with the flow passed explicitly
Task_set_dependencies(f, hasFlow, self, upstream_tasks, keyword_tasks) ==
    IF ~hasFlow
    THEN [err |-> "ValueError", flow |-> f]
    ELSE [err |-> "none",
          flow |-> Flow_set_dependencies(f, self, upstream_tasks, keyword_tasks)]

\* a __call__ that looks for the active flow before binding the arguments
Task__call__FlowFirst(self, args, kwargs, upstream_tasks, hasFlow, f) ==
    LET sig == Signatures[self]
        bound == signature_bind(sig, args, kwargs)
    IN  IF ~hasFlow
        THEN [err |-> "ValueError", flow |-> f, handed |-> FALSE,
              keyword_tasks |-> EmptyDict]
        ELSE IF bound.err # "none"
        THEN [err |-> bound.err, flow |-> f, handed |-> FALSE,
              keyword_tasks |-> EmptyDict]
        ELSE LET callargs == expand_var_kw(bound.arguments, sig)
                 r == Task_set_dependencies(f, hasFlow, self, upstream_tasks, callargs)
             IN [err |-> r.err, flow |-> r.flow, handed |-> TRUE,
                 keyword_tasks |-> callargs]

\* Task.__call__ (lines 158-180): bind, expand the ** entries, find the
\* active flow, hand the keyed arguments to the flow
Task__call__(self, args, kwargs, upstream_tasks, hasFlow, f) ==
    LET sig == Signatures[self]
        bound == signature_bind(sig, args, kwargs)
    IN  IF bound.err # "none"
        THEN [err |-> bound.err, flow |-> f, handed |-> FALSE,
              keyword_tasks |-> EmptyDict]
        ELSE LET callargs == expand_var_kw(bound.arguments, sig) IN
            IF ~hasFlow
            THEN [err |-> "ValueError", flow |-> f, handed |-> FALSE,
                  keyword_tasks |-> EmptyDict]
            ELSE LET r == Task_set_dependencies(f, hasFlow, self, upstream_tasks, callargs)
                 IN [err |-> r.err, flow |-> r.flow, handed |-> TRUE,
                     keyword_tasks |-> callargs]

PositionalArgs == {[i \in 1..n |-> PosValue(i)] : n \in 0..MaxPos}
KeywordArgs == UNION {[S -> KwValues] : S \in SUBSET KwNames}

NoCall ==
    [self |-> "", args |-> <<>>, kwargs |-> EmptyDict, upstream_tasks |-> {},
     hasFlow |-> FALSE, outcome |-> "nocall", handed |-> FALSE,
     keyword_tasks |-> EmptyDict]

EmptyFlow == [tasks |-> {}, edges |-> {}]

InitBind ==
    /\ flow = EmptyFlow
    /\ ctx_flow = FALSE
    /\ lastCall = NoCall
    /\ prevFlow = EmptyFlow
    /\ calls = 0

\* `with flow:` is entered
EnterFlow ==
    /\ ~ctx_flow
    /\ ctx_flow' = TRUE
    /\ UNCHANGED <<flow, lastCall, prevFlow, calls>>
    /\ UNCHANGED notBindVars

\* `with flow:` is left
ExitFlow ==
    /\ ctx_flow
    /\ ctx_flow' = FALSE
    /\ UNCHANGED <<flow, lastCall, prevFlow, calls>>
    /\ UNCHANGED notBindVars

\* self(*args, upstream_tasks=upstream_tasks, **kwargs)
Call(self, args, kwargs, upstream_tasks) ==
    /\ calls < MaxCalls
    /\ LET r == Task__call__(self, args, kwargs, upstream_tasks, ctx_flow, flow) IN
        /\ prevFlow' = flow
        /\ flow' = r.flow
        /\ lastCall' = [self |-> self, args |-> args, kwargs |-> kwargs,
                        upstream_tasks |-> upstream_tasks, hasFlow |-> ctx_flow,
                        outcome |-> IF r.err = "none" THEN "ok" ELSE r.err,
                        handed |-> r.handed, keyword_tasks |-> r.keyword_tasks]
        /\ calls' = calls + 1
    /\ UNCHANGED ctx_flow
    /\ UNCHANGED notBindVars

-----------------------------------------------------------------------------
(***************************************************************************)
(* Part 4.  The per-attempt execution algorithm that reads the fields the  *)
(* constructor stored.  The runner is not part of task.py; it is modelled  *)
(* from the design document (section 4.6) and the constructor's docstring. *)
(***************************************************************************)

\* the oldest prior result drawn
MaxAge == 3

UpstreamIds == {"u1", "u2"}
UpstreamStates == {"Success", "Failed", "Skipped", "Cached"}
EntrypointOutcomes == {"return", "FAIL", "SUCCESS", "WAIT", "error", "timeout"}

\* the docstring of skip_on_upstream_skip (lines 64-67): "skips are
\* considered successes"; Cached is a successful terminal state as well
is_successful(s) == s \in {"Success", "Cached", "Skipped"}

\* the built-in triggers: "all successful", and one that always fires
all_successful(states) == \A u \in DOMAIN states : is_successful(states[u])
all_finished(states) == TRUE

trigger_eval(trigger, states) ==
    IF trigger = "all_successful" THEN all_successful(states) ELSE all_finished(states)

\* step 1: Skipped without the trigger when skip_on_upstream_skip is set and
\* an upstream is Skipped; else Skipped when the trigger is false
upstream_step(t, states) ==
    IF t.skip_on_upstream_skip /\ \E u \in DOMAIN states : states[u] = "Skipped"
    THEN [next |-> "Skipped", triggered |-> FALSE]
    ELSE IF ~trigger_eval(t.trigger, states)
    THEN [next |-> "Skipped", triggered |-> TRUE]
    ELSE [next |-> "proceed", triggered |-> TRUE]

\* the cache validators: "never", "duration only", and a custom one that
\* accepts every prior result
cache_isValid(t, age) ==
    IF t.cache_validator = "never_use" THEN FALSE
    ELSE IF t.cache_validator = "duration_only"
    THEN t.cache_for # NoneV /\ age <= t.cache_for[1]
    ELSE TRUE

\* step 2: a prior record the validator accepts is replayed as Cached
cache_step(t, prior) == prior # NoneV /\ cache_isValid(t, prior[1])

\* the retry budget: a task can be retried max_retries times (line 59)
should_retry(t, attempt) == attempt - 1 < t.max_retries

EngineArgs ==
    [tags : {[kind |-> "none", items |-> {}]},
     max_retries : 0..MaxRetries,
     trigger : TriggerArgs,
     skip_on_upstream_skip : BOOLEAN,
     cache_for : CacheForArgs,
     cache_validator : {NoneV, Some("all_inputs")}]

InitEngine ==
    /\ eArgs \in EngineArgs
    /\ eTask = Task__init__(eArgs, AbsentEntry({})).self
    /\ eUpstream \in UNION {[S -> UpstreamStates] : S \in SUBSET UpstreamIds}
    /\ ePrior \in {NoneV} \cup {Some(a) : a \in 1..MaxAge}
    /\ eState = "Pending"
    /\ eStep = "gather"
    /\ run_count = 1
    /\ eSeen = <<>>
    /\ eOutcomes = <<>>
    /\ eTrace = <<"Pending">>
    /\ triggerCalls = 0

\* step 1 of an attempt
GatherUpstream ==
    /\ eStep = "gather"
    /\ LET r == upstream_step(eTask, eUpstream) IN
        /\ triggerCalls' = IF r.triggered THEN triggerCalls + 1 ELSE triggerCalls
        /\ IF r.next = "Skipped"
           THEN /\ eState' = "Skipped"
                /\ eTrace' = Append(eTrace, "Skipped")
                /\ eStep' = "done"
           ELSE /\ eStep' = "cache"
                /\ UNCHANGED <<eState, eTrace>>
    /\ UNCHANGED <<eArgs, eTask, eUpstream, ePrior, run_count, eSeen, eOutcomes>>
    /\ UNCHANGED notEngineVars

\* step 2 of an attempt
CheckCache ==
    /\ eStep = "cache"
    /\ IF cache_step(eTask, ePrior)
       THEN /\ eState' = "Cached"
            /\ eTrace' = Append(eTrace, "Cached")
            /\ eStep' = "done"
       ELSE /\ eStep' = "run"
            /\ UNCHANGED <<eState, eTrace>>
    /\ UNCHANGED <<eArgs, eTask, eUpstream, ePrior, run_count, eSeen, eOutcomes,
                   triggerCalls>>
    /\ UNCHANGED notEngineVars

\* step 3: Running, and the entrypoint is invoked with the attempt number
StartRunning ==
    /\ eStep = "run"
    /\ eState' = "Running"
    /\ eTrace' = Append(eTrace, "Running")
    /\ eSeen' = Append(eSeen, run_count)
    /\ eStep' = "running"
    /\ UNCHANGED <<eArgs, eTask, eUpstream, ePrior, run_count, eOutcomes, triggerCalls>>
    /\ UNCHANGED notEngineVars

\* the entrypoint returns, signals, raises or times out
FinishRun(outcome) ==
    /\ eStep = "running"
    /\ eOutcomes' = Append(eOutcomes, outcome)
    /\ LET result == CASE outcome \in {"return", "SUCCESS"} -> "Success"
                       [] outcome = "WAIT" -> "WaitingForUpstream"
                       [] outcome = "timeout" -> "TimedOut"
                       [] OTHER -> "Failed"
       IN IF result \in {"Failed", "TimedOut"} /\ should_retry(eTask, run_count)
          THEN /\ eState' = "Retrying"
               /\ eTrace' = eTrace \o <<result, "Retrying">>
               /\ eStep' = "retrying"
          ELSE /\ eState' = result
               /\ eTrace' = Append(eTrace, result)
               /\ eStep' = "done"
    /\ UNCHANGED <<eArgs, eTask, eUpstream, ePrior, run_count, eSeen, triggerCalls>>
    /\ UNCHANGED notEngineVars

\* the retry delay elapses: the next attempt starts at step 1
RetryDue ==
    /\ eStep = "retrying"
    /\ run_count' = run_count + 1
    /\ eStep' = "gather"
    /\ UNCHANGED <<eArgs, eTask, eUpstream, ePrior, eState, eSeen, eOutcomes,
                   eTrace, triggerCalls>>
    /\ UNCHANGED notEngineVars

-----------------------------------------------------------------------------
(***************************************************************************)
(* Part 5.  Parameter: construction, the name and slug properties, run.    *)
(***************************************************************************)

ParamNameArgs == {"", "x", "y"}
AssignedValues == {"x", "y", "z"}
ParamDefaults == {NoneV, Some(3)}
ParameterMappings == UNION {[S -> {5, 7}] : S \in SUBSET {"x", "y"}}

\* an object on which neither __init__ nor a setter has run yet
NewObject == [has_name |-> FALSE, _name |-> "", required |-> FALSE, default |-> NoneV]

\* a name setter without the hasattr guard
name_setter_unguarded(self, value) ==
    [err |-> "none", self |-> [self EXCEPT !.has_name = TRUE, !._name = value]]

\* lines 280-284: the name can be set once
name_setter(self, value) ==
    IF self.has_name
    THEN [err |-> "AttributeError", self |-> self]
    ELSE [err |-> "none", self |-> [self EXCEPT !.has_name = TRUE, !._name = value]]

\* lines 276-278 and 286-292: name is _name, and slug is name
name_getter(self) == self._name
slug_getter(self) == name_getter(self)

\* lines 294-299: stores nothing; an error unless the value is the name
slug_setter(self, value) ==
    IF ~self.has_name \/ value # name_getter(self)
    THEN [err |-> "AttributeError", self |-> self]
    ELSE [err |-> "none", self |-> self]

\* lines 264-271, with Task.__init__'s `self.name = name or type(self).__name__`
\* and `self.slug = slug`
Parameter__init__(name, default, required) ==
    LET req == IF default # NoneV THEN FALSE ELSE required
        self0 == [NewObject EXCEPT !.required = req, !.default = default]
        n == name_setter(self0, IF name # "" THEN name ELSE "Parameter")
        s == slug_setter(n.self, name)
    IN  IF n.err # "none" THEN [err |-> n.err, self |-> self0]
        ELSE IF s.err # "none" THEN [err |-> s.err, self |-> n.self]
        ELSE [err |-> "none", self |-> s.self]

FailMessage(name) == "Parameter \"" \o name \o "\" was required but not provided."

NoParameters == [k \in {} |-> 0]

NoRun == [state |-> "none", value |-> NoneV, message |-> "", params |-> NoParameters]

\* lines 301-307: FAIL when required and missing, else the mapped value or
\* the default; the runner turns a return into Success and FAIL into Failed
Parameter_run(self, ctx) ==
    LET params == context_get(ctx, NoParameters) IN
    IF self.required /\ name_getter(self) \notin DOMAIN params
    THEN [state |-> "Failed", value |-> NoneV, message |-> FailMessage(name_getter(self))]
    ELSE [state |-> "Success",
          value |-> IF name_getter(self) \in DOMAIN params
                       THEN Some(params[name_getter(self)])
                       ELSE self.default,
          message |-> ""]

NoOp == [op |-> "none", value |-> "", err |-> "none"]

InitParam ==
    /\ param = NoneV
    /\ pArgs = [name |-> "", default |-> NoneV, required |-> TRUE]
    /\ pLastOp = NoOp
    /\ ctx_parameters = AbsentEntry(NoParameters)
    /\ pRun = NoRun
    /\ pDownstream = "Pending"

\* the flow is run with a parameter mapping
SetParameters(m) ==
    /\ ctx_parameters' = PresentEntry(m)
    /\ UNCHANGED <<param, pArgs, pLastOp, pRun, pDownstream>>
    /\ UNCHANGED notParamVars

\* Parameter(name, default=default, required=required)
ConstructParameter(name, default, required) ==
    /\ param = NoneV
    /\ LET r == Parameter__init__(name, default, required) IN
        /\ param' = IF r.err = "none" THEN Some(r.self) ELSE NoneV
        /\ pLastOp' = [op |-> "init", value |-> name, err |-> r.err]
    /\ pArgs' = [name |-> name, default |-> default, required |-> required]
    /\ UNCHANGED <<ctx_parameters, pRun, pDownstream>>
    /\ UNCHANGED notParamVars

\* p.name = value
AssignName(value) ==
    /\ param # NoneV
    /\ LET r == name_setter(param[1], value) IN
        /\ param' = Some(r.self)
        /\ pLastOp' = [op |-> "name", value |-> value, err |-> r.err]
    /\ UNCHANGED <<pArgs, ctx_parameters, pRun, pDownstream>>
    /\ UNCHANGED notParamVars

\* p.slug = value
AssignSlug(value) ==
    /\ param # NoneV
    /\ LET r == slug_setter(param[1], value) IN
        /\ param' = Some(r.self)
        /\ pLastOp' = [op |-> "slug", value |-> value, err |-> r.err]
    /\ UNCHANGED <<pArgs, ctx_parameters, pRun, pDownstream>>
    /\ UNCHANGED notParamVars

\* the Parameter is run, then the task it feeds (a Task with the default
\* trigger and skip_on_upstream_skip) goes through step 1
RunParameter ==
    /\ param # NoneV
    /\ LET r == Parameter_run(param[1], ctx_parameters)
           d == Task__init__(DefaultArgs, AbsentEntry({})).self
           step == upstream_step(d, [u \in {"x"} |-> r.state])
       IN /\ pRun' = [state |-> r.state, value |-> r.value, message |-> r.message,
                       params |-> context_get(ctx_parameters, NoParameters)]
          /\ pDownstream' = IF step.next = "Skipped" THEN "Skipped" ELSE "Success"
    /\ UNCHANGED <<param, pArgs, pLastOp, ctx_parameters>>
    /\ UNCHANGED notParamVars

-----------------------------------------------------------------------------
(***************************************************************************)
(* The specifications: one per part, the other parts left idle.            *)
(***************************************************************************)
IdleEngine ==
    /\ eArgs = DefaultArgs
    /\ eTask = Task__init__(DefaultArgs, AbsentEntry({})).self
    /\ eUpstream = [u \in {} |-> "Success"]
    /\ ePrior = NoneV
    /\ eState = "Pending"
    /\ eStep = "gather"
    /\ run_count = 1
    /\ eSeen = <<>>
    /\ eOutcomes = <<>>
    /\ eTrace = <<"Pending">>
    /\ triggerCalls = 0

Init == InitTypes /\ InitTask /\ InitBind /\ IdleEngine /\ InitParam

NextTypes ==
    \E parents \in SUBSET (1..Len(types)) \ {{}}, methods \in Methods :
        DefineType(parents, methods)

SpecTypes == Init /\ [][NextTypes]_vars

TaskArgs ==
    [tags : TagsArgs, max_retries : {0}, trigger : {NoneV},
     skip_on_upstream_skip : {TRUE}, cache_for : CacheForArgs,
     cache_validator : ValidatorArgs]

NextTask ==
    \/ \E entry \in CtxTagsValues : SetContextTags(entry)
    \/ \E a \in TaskArgs : ConstructTask(a)

SpecTask == Init /\ [][NextTask]_vars

NextBind ==
    \/ EnterFlow
    \/ ExitFlow
    \/ \E self \in CalledTasks, args \in PositionalArgs, kwargs \in KeywordArgs,
          upstream_tasks \in UpstreamArgs :
            Call(self, args, kwargs, upstream_tasks)

SpecBind == Init /\ [][NextBind]_vars

InitRun == InitTypes /\ InitTask /\ InitBind /\ InitEngine /\ InitParam

NextEngine ==
    \/ GatherUpstream
    \/ CheckCache
    \/ StartRunning
    \/ \E outcome \in EntrypointOutcomes : FinishRun(outcome)
    \/ RetryDue

SpecEngine == InitRun /\ [][NextEngine]_vars

NextParam ==
    \/ \E m \in ParameterMappings : SetParameters(m)
    \/ \E name \in ParamNameArgs, default \in ParamDefaults, required \in BOOLEAN :
          ConstructParameter(name, default, required)
    \/ \E value \in AssignedValues : AssignName(value)
    \/ \E value \in AssignedValues : AssignSlug(value)
    \/ RunParameter

SpecParam == Init /\ [][NextParam]_vars

-----------------------------------------------------------------------------
(***************************************************************************)
(* The properties.                                                         *)
(***************************************************************************)

\* C1: a class statement whose run takes *args is rejected with ValueError,
\* also when its bases are valid task types; one whose run takes only named
\* and ** parameters (or that declares no run) is defined; so no defined
\* task type has an entrypoint, its own or inherited, that takes *args.
C1_SignatureContract ==
    /\ lastDef.outcome # "none" =>
        IF lastDef.methods.hasRun /\ lastDef.methods.varargs
        THEN lastDef.outcome = "ValueError"
        ELSE /\ lastDef.outcome = "defined"
             /\ types[Len(types)] =
                    [parents |-> lastDef.parents, methods |-> lastDef.methods]
    /\ \A t \in 1..Len(types) :
            \A m \in EntrypointCandidates(types, t) : ~m.varargs

\* a subtype of a user-defined valid task type was rejected for its *args
C1_Witness ==
    /\ lastDef.outcome = "ValueError"
    /\ \E p \in lastDef.parents : p > Len(BuiltinTypes) /\ types[p].methods.hasRun

\* C5 as stated: a bare string is a TypeError, and otherwise the stored
\* tags are the union of the ambient tags and the explicit tags.
C5_TagsAreUnion ==
    /\ taskArgs.tags.kind = "str" => taskErr = "TypeError" /\ task = NoneV
    /\ task # NoneV =>
            task[1].tags = context_get(taskCtx, {}) \cup taskArgs.tags.items

\* C10 as stated: without cache_for the stored validator is never_use,
\* whether or not a validator was supplied (a supplied one only warns); with
\* cache_for and no validator it is duration_only.
C10_NeverCachedWithoutCacheFor ==
    task # NoneV =>
        /\ taskArgs.cache_for = NoneV => task[1].cache_validator = "never_use"
        /\ taskArgs.cache_for = NoneV /\ taskArgs.cache_validator # NoneV => warned
        /\ taskArgs.cache_for # NoneV /\ taskArgs.cache_validator = NoneV =>
                task[1].cache_validator = "duration_only"

\* whether the last call's arguments fail to match the entrypoint signature
SignatureMismatch(c) ==
    \/ TooManyPositional(Signatures[c.self], c.args)
    \/ MultipleValues(Signatures[c.self], c.args, c.kwargs)
    \/ UnexpectedKeyword(Signatures[c.self], c.kwargs)
    \/ MissingRequired(Signatures[c.self], c.args, c.kwargs)

\* C2 as stated: with no ambient flow the call fails with the no-active-flow
\* error whatever the arguments; with missing or extra positional arguments
\* it fails with the mismatch error; a failure leaves the graph as it was
\* and a success commits every resolved edge.
C2_Original ==
    lastCall.outcome # "nocall" =>
        /\ ~lastCall.hasFlow => lastCall.outcome = "ValueError"
        /\ lastCall.hasFlow /\ SignatureMismatch(lastCall) =>
                lastCall.outcome = "TypeError"
        /\ lastCall.outcome # "ok" => flow = prevFlow
        /\ lastCall.outcome = "ok" =>
                ResolvedEdges(lastCall.self, lastCall.upstream_tasks,
                              lastCall.keyword_tasks) \subseteq flow.edges

\* C2 amended: arguments that do not match the signature fail with TypeError
\* whether or not a flow is active; matching arguments without an active
\* flow fail with ValueError; a failure leaves the graph's tasks and edges
\* as they were; a success adds exactly the edges resolved from what was
\* handed to the flow.
C2_FailedCallCommitsNothing ==
    lastCall.outcome # "nocall" =>
        /\ SignatureMismatch(lastCall) => lastCall.outcome = "TypeError"
        /\ ~SignatureMismatch(lastCall) /\ ~lastCall.hasFlow =>
                lastCall.outcome = "ValueError"
        /\ ~SignatureMismatch(lastCall) /\ lastCall.hasFlow =>
                lastCall.outcome = "ok"
        /\ lastCall.outcome # "ok" => flow = prevFlow /\ ~lastCall.handed
        /\ lastCall.outcome = "ok" =>
                /\ lastCall.handed
                /\ flow.edges = prevFlow.edges \cup
                        ResolvedEdges(lastCall.self, lastCall.upstream_tasks,
                                      lastCall.keyword_tasks)

\* mismatching arguments outside a flow failed, on a graph that has edges
C2_Witness ==
    /\ lastCall.outcome = "TypeError"
    /\ ~lastCall.hasFlow
    /\ prevFlow.edges # {}
    /\ flow = prevFlow

\* the call's named arguments: each positional argument under the name of
\* the parameter it binds to, each keyword argument under its own name
NamedArguments(c) ==
    LET sig == Signatures[c.self]
        pos == {sig.params[i].name : i \in 1..Len(c.args)}
        index(n) == CHOOSE i \in 1..Len(sig.params) : sig.params[i].name = n
    IN [n \in pos \cup DOMAIN c.kwargs |->
            IF n \in pos THEN c.args[index(n)] ELSE c.kwargs[n]]

\* C3 as stated: a successful call has a keyed edge (argument task, called
\* task, argument name) for each named argument whose value is a task,
\* creates no edge for a named argument whose value is a literal, and has
\* an unkeyed edge for each task in upstream_tasks.
C3_EdgePerTaskArgument ==
    lastCall.outcome = "ok" =>
        LET named == NamedArguments(lastCall)
            created == flow.edges \ prevFlow.edges
        IN  /\ \A n \in DOMAIN named :
                    IF named[n].kind = "task"
                    THEN Edge(named[n].task, lastCall.self, Some(n)) \in flow.edges
                    ELSE \A e \in created :
                            ~(e.downstream = lastCall.self /\ e.key = Some(n))
            /\ \A u \in lastCall.upstream_tasks :
                    Edge(u, lastCall.self, NoneV) \in flow.edges

\* C4 as stated: every entry a ** parameter captured is a key of its own,
\* with its own value, in the keyed arguments handed to the flow, and no
\* key named after the ** parameter holds a nested mapping.
C4_VarKeywordFlattened ==
    lastCall.handed /\ Signatures[lastCall.self].varkw # NoneV =>
        LET sig == Signatures[lastCall.self] IN
        /\ \A k \in Captured(sig, lastCall.kwargs) :
                /\ k \in DOMAIN lastCall.keyword_tasks
                /\ lastCall.keyword_tasks[k] = lastCall.kwargs[k]
        /\ \A k \in DOMAIN lastCall.keyword_tasks :
                lastCall.keyword_tasks[k].kind # "map"

\* C6 as stated: name and slug stay the name given at construction, and
\* every assignment to name or slug after construction raises.
C6_Original ==
    param # NoneV =>
        /\ name_getter(param[1]) = pArgs.name
        /\ slug_getter(param[1]) = pArgs.name
        /\ pLastOp.op \in {"name", "slug"} => pLastOp.err # "none"

\* C6 amended: name and slug stay the name given at construction; every
\* assignment to name raises; an assignment to slug raises exactly when the
\* value differs from the name, and assigning the name itself is accepted
\* and changes nothing.
C6_NameAndSlugImmutable ==
    param # NoneV =>
        /\ name_getter(param[1]) = pArgs.name
        /\ slug_getter(param[1]) = pArgs.name
        /\ pLastOp.op = "name" => pLastOp.err = "AttributeError"
        /\ pLastOp.op = "slug" =>
                (pLastOp.err = "AttributeError" <=> pLastOp.value # pArgs.name)
        /\ pLastOp.op = "slug" /\ pLastOp.value = pArgs.name => pLastOp.err = "none"

\* the slug was assigned the parameter's own name, and that was accepted
C6_Witness ==
    /\ param # NoneV
    /\ pLastOp.op = "slug"
    /\ pLastOp.value = pArgs.name
    /\ pLastOp.err = "none"

\* C7 as stated: a Parameter constructed with required=True, whatever the
\* default, runs to Success with the mapped value when its name is in the
\* parameter mapping, and to Failed with the "required but not provided"
\* message, its dependent Skipped, when it is not.
C7_RequiredParameter ==
    pRun.state # "none" /\ pArgs.required =>
        IF pArgs.name \in DOMAIN pRun.params
        THEN /\ pRun.state = "Success"
             /\ pRun.value = Some(pRun.params[pArgs.name])
        ELSE /\ pRun.state = "Failed"
             /\ pRun.message = FailMessage(pArgs.name)
             /\ pDownstream = "Skipped"

AllFail == \A i \in 1..Len(eOutcomes) : eOutcomes[i] = "FAIL"

UpstreamSkipped == \E u \in DOMAIN eUpstream : eUpstream[u] = "Skipped"

=============================================================================
